---- MODULE Spec2Model ----
(***************************************************************************)
(* A model of fuzzy-c: membership functions, fuzzification of a crisp      *)
(* value into a FuzzySet, rule inference (min/max/not, max aggregation,    *)
(* normalisation) and centroid defuzzification.                            *)
(*                                                                         *)
(* The C code computes on doubles.  The model computes on exact rationals  *)
(* <<numerator, denominator>> in lowest terms with a positive denominator, *)
(* so that two equal values are equal tuples.                              *)
(***************************************************************************)
EXTENDS Integers, Sequences, FiniteSets, TLC

VARIABLES
    sets,       \* FuzzySet objects: id -> [length, membershipFunctions, membershipValues]
    rules,      \* the program's static FuzzyRule array
    pc,         \* position of the driver: "idle" or a phase of fuzzyInference
    idx,        \* loop index i of the running fuzzyInference loop
    pre,        \* membershipValues of every set when fuzzyInference was entered
    strengths,  \* the value of `membership` each rule reached at line 124
    evalAt,     \* the membershipValues of every set when each rule was evaluated
    wlog,       \* the writes of the running fuzzyInference, in order
    last,       \* the last completed API call and its arguments / result
    calls,      \* number of API calls made so far
    arg         \* the input drawn for a function checked on its own

vars == <<sets, rules, pc, idx, pre, strengths, evalAt, wlog, last, calls, arg>>

----------------------------------------------------------------------------
(* Exact arithmetic standing for the C doubles. *)

Abs(n) == IF n < 0 THEN -n ELSE n

RECURSIVE GCD(_, _)
GCD(a, b) == IF b = 0 THEN a ELSE GCD(b, a % b)

\* The value 1/0 stands for the result of a division by zero (inf or nan).
DivByZero == <<1, 0>>

Rat(n, d) ==
    IF d = 0 THEN DivByZero
    ELSE LET g == GCD(Abs(n), Abs(d))
             s == IF d < 0 THEN -1 ELSE 1
         IN  <<(s * n) \div g, (s * d) \div g>>

R(n) == <<n, 1>>

RAdd(p, q) == Rat(p[1] * q[2] + q[1] * p[2], p[2] * q[2])
RSub(p, q) == Rat(p[1] * q[2] - q[1] * p[2], p[2] * q[2])
RMul(p, q) == Rat(p[1] * q[1], p[2] * q[2])
RDiv(p, q) == Rat(p[1] * q[2], p[2] * q[1])
RLt(p, q) == p[1] * q[2] < q[1] * p[2]
RLe(p, q) == p[1] * q[2] <= q[1] * p[2]

\* <math.h> fmin and fmax as fuzzyInference uses them.
fmin(p, q) == IF RLe(p, q) THEN p ELSE q
fmax(p, q) == IF RLe(p, q) THEN q ELSE p

----------------------------------------------------------------------------
(* membership_function.h: the shape descriptor. *)

MembershipFunction(a, b, c, d, type) ==
    [a |-> R(a), b |-> R(b), c |-> R(c), d |-> R(d), type |-> type]

(* membership_functions.c *)

\* Faults of the triangle: the left slope measured from b; both bounds
\* strict, as the trapezoid has them; no test for b - a == 0.
triangularMembershipFunctionFromPeak(x, a, b, c) ==
    IF RLt(x, a) \/ RLt(c, x) THEN R(0)
    ELSE IF RLe(x, b)
         THEN IF RSub(b, a) = R(0) THEN R(1)
              ELSE RDiv(RSub(b, x), RSub(b, a))
         ELSE RDiv(RSub(c, x), RSub(c, b))

triangularMembershipFunctionStrict(x, a, b, c) ==
    IF RLe(x, a) \/ RLe(c, x) THEN R(0)
    ELSE IF RLe(x, b)
         THEN IF RSub(b, a) = R(0) THEN R(1)
              ELSE RDiv(RSub(x, a), RSub(b, a))
         ELSE RDiv(RSub(c, x), RSub(c, b))

triangularMembershipFunctionUnguarded(x, a, b, c) ==
    IF RLt(x, a) \/ RLt(c, x) THEN R(0)
    ELSE IF RLe(x, b) THEN RDiv(RSub(x, a), RSub(b, a))
    ELSE RDiv(RSub(c, x), RSub(c, b))

triangularMembershipFunction(x, a, b, c) ==
    IF RLt(x, a) \/ RLt(c, x) THEN R(0)
    ELSE IF RLe(x, b)
         THEN IF RSub(b, a) = R(0) THEN R(1)
              ELSE RDiv(RSub(x, a), RSub(b, a))
         ELSE RDiv(RSub(c, x), RSub(c, b))

\* Faults of the trapezoid: no flat top, the right slope starts at b; both
\* bounds closed, as the triangle has them.
trapezoidalMembershipFunctionNoTop(x, a, b, c, d) ==
    IF RLe(x, a) \/ RLe(d, x) THEN R(0)
    ELSE IF RLe(x, b) THEN RDiv(RSub(x, a), RSub(b, a))
    ELSE RDiv(RSub(d, x), RSub(d, c))

trapezoidalMembershipFunctionClosed(x, a, b, c, d) ==
    IF RLt(x, a) \/ RLt(d, x) THEN R(0)
    ELSE IF RLe(x, b) THEN RDiv(RSub(x, a), RSub(b, a))
    ELSE IF RLe(c, x) THEN RDiv(RSub(d, x), RSub(d, c))
    ELSE R(1)

trapezoidalMembershipFunction(x, a, b, c, d) ==
    IF RLe(x, a) \/ RLe(d, x) THEN R(0)
    ELSE IF RLe(x, b) THEN RDiv(RSub(x, a), RSub(b, a))
    ELSE IF RLe(c, x) THEN RDiv(RSub(d, x), RSub(d, c))
    ELSE R(1)

\* A fault of the rectangle: the upper bound included.
rectangularMembershipFunctionClosed(x, a, b) ==
    IF RLt(x, a) \/ RLt(b, x) THEN R(0) ELSE R(1)

rectangularMembershipFunction(x, a, b) ==
    IF RLt(x, a) \/ RLe(b, x) THEN R(0) ELSE R(1)

\* A fault of the dispatch: the default label falls into the triangle.
membershipFunctionFallThrough(x, mf) ==
    CASE mf.type = "TRAPEZOIDAL" ->
            trapezoidalMembershipFunction(x, mf.a, mf.b, mf.c, mf.d)
      [] mf.type = "RECTANGULAR" ->
            rectangularMembershipFunction(x, mf.a, mf.b)
      [] OTHER -> triangularMembershipFunction(x, mf.a, mf.b, mf.c)

membershipFunction(x, mf) ==
    CASE mf.type = "TRIANGULAR" ->
            triangularMembershipFunction(x, mf.a, mf.b, mf.c)
      [] mf.type = "TRAPEZOIDAL" ->
            trapezoidalMembershipFunction(x, mf.a, mf.b, mf.c, mf.d)
      [] mf.type = "RECTANGULAR" ->
            rectangularMembershipFunction(x, mf.a, mf.b)
      [] OTHER -> R(0)

----------------------------------------------------------------------------
(* classifier.c: FuzzyClassifier overwrites every degree of the set. *)

\* Faults of the classifier loop: it starts at the second shape.
FuzzyClassifierSkipFirst(x, set) ==
    [set EXCEPT !.membershipValues =
        [i \in 1..set.length |->
            IF i = 1 THEN set.membershipValues[i]
            ELSE membershipFunction(x, set.membershipFunctions[i])]]

FuzzyClassifier(x, set) ==
    [set EXCEPT !.membershipValues =
        [i \in 1..set.length |-> membershipFunction(x, set.membershipFunctions[i])]]

----------------------------------------------------------------------------
(* class.c: normalizeClass. *)

RECURSIVE SumTo(_, _)
SumTo(v, n) == IF n = 0 THEN R(0) ELSE RAdd(SumTo(v, n - 1), v[n])

\* A fault of the dividing loop: it stops one element early.
normalizeClassSkipLast(set) ==
    LET sum == SumTo(set.membershipValues, set.length)
    IN  IF sum = R(0)
        THEN [set EXCEPT !.membershipValues = [i \in 1..set.length |-> R(0)]]
        ELSE [set EXCEPT !.membershipValues =
                [i \in 1..set.length |->
                    IF i < set.length THEN RDiv(set.membershipValues[i], sum)
                    ELSE set.membershipValues[i]]]

\* A fault of the dividing loop: *= for /=.
normalizeClassScale(set) ==
    LET sum == SumTo(set.membershipValues, set.length)
    IN  IF sum = R(0)
        THEN [set EXCEPT !.membershipValues = [i \in 1..set.length |-> R(0)]]
        ELSE [set EXCEPT !.membershipValues =
                [i \in 1..set.length |-> RMul(set.membershipValues[i], sum)]]

\* Faults of normalizeClass: no test for a zero sum; the divisor is the
\* number of degrees, not their sum.
normalizeClassNoZeroTest(set) ==
    LET sum == SumTo(set.membershipValues, set.length)
    IN  [set EXCEPT !.membershipValues =
            [i \in 1..set.length |-> RDiv(set.membershipValues[i], sum)]]

normalizeClassByLength(set) ==
    LET sum == SumTo(set.membershipValues, set.length)
    IN  IF sum = R(0)
        THEN [set EXCEPT !.membershipValues = [i \in 1..set.length |-> R(0)]]
        ELSE [set EXCEPT !.membershipValues =
                [i \in 1..set.length |-> RDiv(set.membershipValues[i], R(set.length))]]

normalizeClass(set) ==
    LET sum == SumTo(set.membershipValues, set.length)
    IN  IF sum = R(0)
        THEN [set EXCEPT !.membershipValues = [i \in 1..set.length |-> R(0)]]
        ELSE [set EXCEPT !.membershipValues =
                [i \in 1..set.length |-> RDiv(set.membershipValues[i], sum)]]

----------------------------------------------------------------------------
(* defuzzifier.c *)

calculateTriangularCentroid(function, membership) ==
    IF membership = R(0) THEN R(0)
    ELSE IF function.a = function.b THEN function.b
    ELSE IF function.c = function.b THEN function.b
    ELSE RDiv(RAdd(RAdd(function.a, function.b), function.c), R(3))

\* A fault of the rectangle test: || for &&.
calculateTrapezoidalCentroidEither(function, membership) ==
    IF membership = R(0) THEN R(0)
    ELSE IF function.a = function.b \/ function.c = function.d
         THEN RDiv(RAdd(function.b, function.c), R(2))
    ELSE RDiv(RAdd(RAdd(RAdd(function.a, function.b), function.c), function.d), R(4))

calculateTrapezoidalCentroid(function, membership) ==
    IF membership = R(0) THEN R(0)
    ELSE IF function.a = function.b /\ function.c = function.d
         THEN RDiv(RAdd(function.b, function.c), R(2))
    ELSE RDiv(RAdd(RAdd(RAdd(function.a, function.b), function.c), function.d), R(4))

calculateRectangularCentroid(function, membership) ==
    IF membership = R(0) THEN R(0)
    ELSE RDiv(RAdd(function.a, function.b), R(2))

calculateCentroid(function, membership) ==
    CASE function.type = "TRIANGULAR" ->
            calculateTriangularCentroid(function, membership)
      [] function.type = "TRAPEZOIDAL" ->
            calculateTrapezoidalCentroid(function, membership)
      [] function.type = "RECTANGULAR" ->
            calculateRectangularCentroid(function, membership)
      [] OTHER -> R(0)

\* The loop of defuzzification: <<sum, sumOfMemberships>> after n iterations.
RECURSIVE DefuzzLoop(_, _)
DefuzzLoop(set, n) ==
    IF n = 0 THEN <<R(0), R(0)>>
    ELSE LET acc == DefuzzLoop(set, n - 1)
             membership == set.membershipValues[n]
             x == calculateCentroid(set.membershipFunctions[n], membership)
         IN  <<RAdd(acc[1], RMul(x, membership)), RAdd(acc[2], membership)>>

\* A fault of the final division: by the number of shapes, a plain mean.
defuzzificationMean(set) ==
    LET acc == DefuzzLoop(set, set.length)
    IN  IF acc[2] = R(0) THEN R(0) ELSE RDiv(acc[1], R(set.length))

\* A fault of the final division: it is missing, the weighted sum is returned.
defuzzificationWeightedSum(set) ==
    LET acc == DefuzzLoop(set, set.length)
    IN  IF acc[2] = R(0) THEN R(0) ELSE acc[1]

defuzzification(set) ==
    LET acc == DefuzzLoop(set, set.length)
    IN  IF acc[2] = R(0) THEN R(0) ELSE RDiv(acc[1], acc[2])

----------------------------------------------------------------------------
(* inference.h: the rule-building macros. *)

VAR(variable, value) == [variable |-> variable, value |-> value, invert |-> FALSE]
NOT(variable, value) == [variable |-> variable, value |-> value, invert |-> TRUE]
Consequent(variable, value) == [variable |-> variable, value |-> value]
ANY_OF(variables) == [fuzzy_operator |-> "FUZZY_ANY_OF", variables |-> variables]
ALL_OF(variables) == [fuzzy_operator |-> "FUZZY_ALL_OF", variables |-> variables]
Rule(antecedent, consequent) == [antecedent |-> antecedent, consequent |-> consequent]

----------------------------------------------------------------------------
(* example/minimal.c: the program's sets, shapes and rules. *)

INPUT_LOW == 0
INPUT_MEDIUM == 1
INPUT_HIGH == 2
OUTPUT_LOW == 0
OUTPUT_MEDIUM == 1
OUTPUT_HIGH == 2

InputMembershipFunctions ==
    << MembershipFunction(0, 0, 15, 40, "TRAPEZOIDAL"),
       MembershipFunction(15, 40, 60, 80, "TRAPEZOIDAL"),
       MembershipFunction(60, 80, 100, 100, "TRAPEZOIDAL") >>

OutputMembershipFunctions ==
    << MembershipFunction(0, 0, 30, 50, "TRAPEZOIDAL"),
       MembershipFunction(30, 50, 70, 0, "TRIANGULAR"),
       MembershipFunction(50, 70, 100, 100, "TRAPEZOIDAL") >>

SetIds == {"Input", "Output"}

Functions(s) ==
    IF s = "Input" THEN InputMembershipFunctions ELSE OutputMembershipFunctions

\* if input is low then output is high
RuleLowHigh ==
    Rule(<<ALL_OF(<<VAR("Input", INPUT_LOW)>>)>>, Consequent("Output", OUTPUT_HIGH))

\* if input is not low then output is low
RuleNotLowLow ==
    Rule(<<ALL_OF(<<NOT("Input", INPUT_LOW)>>)>>, Consequent("Output", OUTPUT_LOW))

\* two antecedent groups, ANY_OF and ALL_OF, into the slot RuleLowHigh writes
RuleAnyAllHigh ==
    Rule(<<ANY_OF(<<VAR("Input", INPUT_MEDIUM), NOT("Input", INPUT_HIGH)>>),
           ALL_OF(<<VAR("Input", INPUT_LOW), VAR("Input", INPUT_MEDIUM)>>)>>,
         Consequent("Output", OUTPUT_HIGH))

\* a rule whose antecedent reads the set it writes (as FanState in TecFanControl.c)
RuleFeedback ==
    Rule(<<ALL_OF(<<VAR("Output", OUTPUT_HIGH)>>)>>, Consequent("Output", OUTPUT_LOW))

RuleUniverse == {RuleLowHigh, RuleNotLowLow, RuleAnyAllHigh, RuleFeedback}

\* Bounds of the model.
MaxRules == 2
MaxCalls == 2

RuleLists == UNION {[1..n -> RuleUniverse] : n \in 0..MaxRules}

\* The crisp inputs the driver supplies.
Inputs == {R(0), R(10), R(30), R(70)}

\* What a freshly malloc'ed double may hold (FuzzySetInit does not clear it).
GarbageVals == {R(0), R(2)}

----------------------------------------------------------------------------
(* inference.c: fuzzyInference, on a store st: set id -> FuzzySet. *)

Degree(st, v) == st[v.variable].membershipValues[v.value + 1]

\* A fault of the reference evaluation: the invert flag is not looked at.
inputMembershipAsIs(st, v) == Degree(st, v)

inputMembership(st, v) ==
    IF v.invert THEN RSub(R(1), Degree(st, v)) ELSE Degree(st, v)

\* lines 56-82: the fold of an ANY_OF group over its first k variables
RECURSIVE orMembership(_, _, _)
orMembership(st, variables, k) ==
    IF k = 0 THEN R(0)
    ELSE fmax(orMembership(st, variables, k - 1), inputMembership(st, variables[k]))

\* lines 90-116: the fold of an ALL_OF group over its first k variables
RECURSIVE andMembership(_, _, _)
andMembership(st, variables, k) ==
    IF k = 0 THEN R(1)
    ELSE fmin(andMembership(st, variables, k - 1), inputMembership(st, variables[k]))

\* lines 46-122: `membership` after the first j antecedents of the rule
RECURSIVE RuleMembership(_, _, _)
RuleMembership(st, rule, j) ==
    IF j = 0 THEN R(1)
    ELSE LET membership == RuleMembership(st, rule, j - 1)
             antecedent == rule.antecedent[j]
             n == Len(antecedent.variables)
         IN  IF antecedent.fuzzy_operator = "FUZZY_ANY_OF"
             THEN fmin(membership, orMembership(st, antecedent.variables, n))
             ELSE IF antecedent.fuzzy_operator = "FUZZY_ALL_OF"
             THEN fmin(membership, andMembership(st, antecedent.variables, n))
             ELSE membership

WriteDegree(st, v, val) ==
    [st EXCEPT ![v.variable].membershipValues[v.value + 1] = val]

\* lines 36-38: one iteration of the reset loop
ResetValue == R(0)
ResetConsequent(st, rule) == WriteDegree(st, rule.consequent, ResetValue)

\* Faults of the aggregation: the strength overwrites the slot; fmin for fmax.
AggregateOverwrite(old, membership) == membership
AggregateMin(old, membership) == fmin(old, membership)

\* lines 126-131: the max aggregation of one rule's firing strength
AggregateValue(old, membership) == fmax(old, membership)
Aggregate(st, rule) ==
    WriteDegree(st, rule.consequent,
        AggregateValue(Degree(st, rule.consequent),
                       RuleMembership(st, rule, Len(rule.antecedent))))

\* A fault of the normalisation loop: it normalises every set of the store.
NormalizeEverySet(st, rule) == [s \in DOMAIN st |-> normalizeClass(st[s])]

\* line 136: one iteration of the normalisation loop
NormalizeConsequent(st, rule) ==
    [st EXCEPT ![rule.consequent.variable] = normalizeClass(@)]

\* The three loops of fuzzyInference, each over the first n rules.
RECURSIVE ResetLoop(_, _, _)
ResetLoop(rs, st, n) ==
    IF n = 0 THEN st ELSE ResetConsequent(ResetLoop(rs, st, n - 1), rs[n])

RECURSIVE RulesLoop(_, _, _)
RulesLoop(rs, st, n) ==
    IF n = 0 THEN st ELSE Aggregate(RulesLoop(rs, st, n - 1), rs[n])

RECURSIVE NormalizeLoop(_, _, _)
NormalizeLoop(rs, st, n) ==
    IF n = 0 THEN st ELSE NormalizeConsequent(NormalizeLoop(rs, st, n - 1), rs[n])

fuzzyInference(rs, st) ==
    LET numRules == Len(rs)
    IN  NormalizeLoop(rs, RulesLoop(rs, ResetLoop(rs, st, numRules), numRules), numRules)

----------------------------------------------------------------------------
(* The driver: the API calls a program makes, as example/minimal.c main does. *)

\* A global FuzzySet before FuzzySetInit: zero length, no buffers.
Unallocated == [length |-> 0, membershipFunctions |-> <<>>, membershipValues |-> <<>>]

\* A fault of the copy loop: it copies the first shape only, the others
\* stay as the allocator returned them (here all-zero triangles).
FuzzySetInitPartialCopy(membershipFunctions, length, heap) ==
    [length |-> length,
     membershipValues |-> heap,
     membershipFunctions |->
        [i \in 1..length |->
            IF i = 1 THEN membershipFunctions[i]
            ELSE MembershipFunction(0, 0, 0, 0, "TRIANGULAR")]]

\* class.c FuzzySetInit: the shapes are copied, the degree buffer comes from
\* malloc and is not written, so it holds `heap`, whatever the memory held.
FuzzySetInit(membershipFunctions, length, heap) ==
    [length |-> length,
     membershipValues |-> heap,
     membershipFunctions |-> [i \in 1..length |-> membershipFunctions[i]]]

Initialised(s) == sets[s].length > 0

NoCall == [op |-> "none", set |-> "none", x |-> R(0), y |-> R(0)]
Call(op, s, x, y) == [op |-> op, set |-> s, x |-> x, y |-> y]

NoHistory ==
    /\ pre' = [s \in SetIds |-> <<>>]
    /\ strengths' = <<>>
    /\ evalAt' = <<>>
    /\ wlog' = <<>>

Init ==
    /\ sets = [s \in SetIds |-> Unallocated]
    /\ rules \in RuleLists
    /\ pc = "idle"
    /\ idx = 0
    /\ pre = [s \in SetIds |-> <<>>]
    /\ strengths = <<>>
    /\ evalAt = <<>>
    /\ wlog = <<>>
    /\ last = NoCall
    /\ calls = 0
    /\ arg = <<>>

FuzzySetInitCall(s) ==
    /\ pc = "idle"
    /\ ~Initialised(s)
    /\ \E heap \in [1..Len(Functions(s)) -> GarbageVals] :
          sets' = [sets EXCEPT ![s] = FuzzySetInit(Functions(s), Len(Functions(s)), heap)]
    /\ last' = Call("FuzzySetInit", s, R(0), R(0))
    /\ UNCHANGED <<rules, pc, idx, pre, strengths, evalAt, wlog, calls, arg>>

FuzzyClassifierCall(s, x) ==
    /\ pc = "idle"
    /\ Initialised(s)
    /\ calls < MaxCalls
    /\ sets' = [sets EXCEPT ![s] = FuzzyClassifier(x, @)]
    /\ last' = Call("FuzzyClassifier", s, x, R(0))
    /\ calls' = calls + 1
    /\ NoHistory
    /\ UNCHANGED <<rules, pc, idx, arg>>

normalizeClassCall(s) ==
    /\ pc = "idle"
    /\ Initialised(s)
    /\ calls < MaxCalls
    /\ sets' = [sets EXCEPT ![s] = normalizeClass(@)]
    /\ last' = Call("normalizeClass", s, R(0), R(0))
    /\ calls' = calls + 1
    /\ NoHistory
    /\ UNCHANGED <<rules, pc, idx, arg>>

defuzzificationCall(s) ==
    /\ pc = "idle"
    /\ Initialised(s)
    /\ calls < MaxCalls
    /\ last' = Call("defuzzification", s, R(0), defuzzification(sets[s]))
    /\ calls' = calls + 1
    /\ NoHistory
    /\ UNCHANGED <<sets, rules, pc, idx, arg>>

\* fuzzyInference, one loop iteration per step.  idx is i + 1.
Returned == Call("fuzzyInference", "none", R(0), R(0))

\* A fault of the loop structure: each rule's slot is reset right before the
\* rule is evaluated, inside the rule loop.
SchedulePerRule(phase, i, numRules) ==
    CASE phase = "reset" -> <<"rules", i>>
      [] phase = "rules" ->
            IF i < numRules THEN <<"reset", i + 1>> ELSE <<"normalize", 1>>
      [] OTHER ->
            IF i < numRules THEN <<"normalize", i + 1>> ELSE <<"idle", 0>>

\* The three for loops of fuzzyInference (lines 35, 42 and 135), one after the
\* other: where control goes after iteration i of the loop `phase`.
Schedule(phase, i, numRules) ==
    CASE phase = "reset" ->
            IF i < numRules THEN <<"reset", i + 1>> ELSE <<"rules", 1>>
      [] phase = "rules" ->
            IF i < numRules THEN <<"rules", i + 1>> ELSE <<"normalize", 1>>
      [] OTHER ->
            IF i < numRules THEN <<"normalize", i + 1>> ELSE <<"idle", 0>>

Write(kind, st, v) == [kind |-> kind, slot |-> v, val |-> Degree(st, v)]

fuzzyInferenceCall ==
    /\ pc = "idle"
    /\ \A s \in SetIds : Initialised(s)
    /\ calls < MaxCalls
    /\ calls' = calls + 1
    /\ pre' = [s \in SetIds |-> sets[s].membershipValues]
    /\ strengths' = <<>>
    /\ evalAt' = <<>>
    /\ wlog' = <<>>
    /\ IF Len(rules) = 0
       THEN pc' = "idle" /\ idx' = 0 /\ last' = Returned
       ELSE pc' = "reset" /\ idx' = 1 /\ last' = last
    /\ UNCHANGED <<sets, rules, arg>>

ResetStep ==
    /\ pc = "reset"
    /\ sets' = ResetConsequent(sets, rules[idx])
    /\ wlog' = Append(wlog, Write("reset", sets', rules[idx].consequent))
    /\ pc' = Schedule(pc, idx, Len(rules))[1]
    /\ idx' = Schedule(pc, idx, Len(rules))[2]
    /\ UNCHANGED <<rules, pre, strengths, evalAt, last, calls, arg>>

RuleStep ==
    /\ pc = "rules"
    /\ strengths' = Append(strengths,
                           RuleMembership(sets, rules[idx], Len(rules[idx].antecedent)))
    /\ evalAt' = Append(evalAt, [s \in SetIds |-> sets[s].membershipValues])
    /\ sets' = Aggregate(sets, rules[idx])
    /\ wlog' = Append(wlog, Write("aggregate", sets', rules[idx].consequent))
    /\ pc' = Schedule(pc, idx, Len(rules))[1]
    /\ idx' = Schedule(pc, idx, Len(rules))[2]
    /\ UNCHANGED <<rules, pre, last, calls, arg>>

NormalizeStep ==
    /\ pc = "normalize"
    /\ sets' = NormalizeConsequent(sets, rules[idx])
    /\ pc' = Schedule(pc, idx, Len(rules))[1]
    /\ idx' = Schedule(pc, idx, Len(rules))[2]
    /\ last' = IF pc' = "idle" THEN Returned ELSE last
    /\ UNCHANGED <<rules, pre, strengths, evalAt, wlog, calls, arg>>

Next ==
    \/ \E s \in SetIds : FuzzySetInitCall(s)
    \/ \E s \in SetIds, x \in Inputs : FuzzyClassifierCall(s, x)
    \/ \E s \in SetIds : normalizeClassCall(s)
    \/ \E s \in SetIds : defuzzificationCall(s)
    \/ fuzzyInferenceCall
    \/ ResetStep
    \/ RuleStep
    \/ NormalizeStep

Spec == Init /\ [][Next]_vars

----------------------------------------------------------------------------
(* normalizeClass and defuzzification on their own: one set "Arg" drawn from *)
(* the shapes of the fan-speed controller and a grid of degrees.             *)

MaxLength == 2
DegreeSteps == 2
GridMax == 2

DegreeGrid == {Rat(k, DegreeSteps) : k \in 0..DegreeSteps}

\* FanSpeedMembershipFunctions and TEC_POWER_MEDIUM of the fan controller
DefuzzShapes ==
    { MembershipFunction(-20, 20, 0, 0, "RECTANGULAR"),
      MembershipFunction(20, 20, 40, 60, "TRAPEZOIDAL"),
      MembershipFunction(30, 60, 60, 65, "TRAPEZOIDAL"),
      MembershipFunction(60, 65, 100, 100, "TRAPEZOIDAL"),
      MembershipFunction(3, 10, 25, 25, "TRIANGULAR") }

Idle ==
    /\ rules = <<>>
    /\ pc = "idle"
    /\ idx = 0
    /\ pre = [s \in SetIds |-> <<>>]
    /\ strengths = <<>>
    /\ evalAt = <<>>
    /\ wlog = <<>>
    /\ last = NoCall
    /\ calls = 0

DefuzzInit ==
    /\ \E n \in 1..MaxLength :
          \E mfs \in [1..n -> DefuzzShapes], heap \in [1..n -> DegreeGrid] :
              arg = FuzzySetInit(mfs, n, heap)
    /\ sets = [s \in {"Arg"} |-> arg]
    /\ Idle

DefuzzNext ==
    \/ normalizeClassCall("Arg")
    \/ defuzzificationCall("Arg")

SpecDefuzz == DefuzzInit /\ [][DefuzzNext]_vars

----------------------------------------------------------------------------
(* calculateCentroid on its own: one shape from a grid of parameters. *)

Kinds == {"TRIANGULAR", "TRAPEZOIDAL", "RECTANGULAR"}

CentroidInit ==
    /\ \E a, b, c, d \in 0..GridMax, type \in Kinds, membership \in DegreeGrid :
          arg = [function |-> MembershipFunction(a, b, c, d, type),
                 membership |-> membership]
    /\ sets = [s \in {"Arg"} |-> Unallocated]
    /\ Idle

calculateCentroidCall ==
    /\ last = NoCall
    /\ last' = Call("calculateCentroid", "Arg", arg.membership,
                    calculateCentroid(arg.function, arg.membership))
    /\ calls' = calls + 1
    /\ UNCHANGED <<sets, rules, pc, idx, pre, strengths, evalAt, wlog, arg>>

CentroidNext == calculateCentroidCall

SpecCentroid == CentroidInit /\ [][CentroidNext]_vars

----------------------------------------------------------------------------
(* Vocabulary of the properties. *)

\* fuzzyInference has returned and nothing was called since.
InferenceReturned == pc = "idle" /\ last = Returned

\* The store as fuzzyInference found it when it was entered.
PreStore == [s \in SetIds |-> [sets[s] EXCEPT !.membershipValues = pre[s]]]

\* The store as the evaluation of rule i found it.
StoreAt(i) == [s \in SetIds |-> [sets[s] EXCEPT !.membershipValues = evalAt[i][s]]]

ConsequentSlots(rs) == {rs[i].consequent : i \in 1..Len(rs)}
ConsequentSets(rs) == {rs[i].consequent.variable : i \in 1..Len(rs)}

AntecedentRefs(rule) ==
    UNION {{rule.antecedent[j].variables[k] : k \in 1..Len(rule.antecedent[j].variables)} :
             j \in 1..Len(rule.antecedent)}

AntecedentSlots(rs) ==
    UNION {{Consequent(v.variable, v.value) : v \in AntecedentRefs(rs[i])} : i \in 1..Len(rs)}

AntecedentSets(rs) == {v.variable : v \in AntecedentSlots(rs)}

RMinOf(S) == CHOOSE m \in S : \A y \in S : RLe(m, y)
RMaxOf(S) == CHOOSE m \in S : \A y \in S : RLe(y, m)

RuleOrders(n) == {p \in [1..n -> 1..n] : \A i, j \in 1..n : p[i] = p[j] => i = j}
Permuted(rs, p) == [i \in 1..Len(rs) |-> rs[p[i]]]

\* The largest firing strength among the rules of the call that target the slot.
MaxStrength(slot) ==
    RMaxOf({strengths[i] : i \in {j \in 1..Len(rules) : rules[j].consequent = slot}})

----------------------------------------------------------------------------
(* C1: classifying x = 0 against Low = Trapezoidal(0,0,15,40), Medium =     *)
(* Trapezoidal(15,40,60,80), High = Trapezoidal(60,80,100,100) stores the   *)
(* degrees [1, 0, 0].                                                       *)
C1_ClassifyZero ==
    (pc = "idle" /\ last = Call("FuzzyClassifier", "Input", R(0), R(0)))
        => sets["Input"].membershipValues = <<R(1), R(0), R(0)>>

(* C2: after fuzzyInference returns, every slot that is the consequent of   *)
(* some rule holds the maximum of the firing strengths of the rules that    *)
(* target it.                                                               *)
C2_MaxOfStrengths ==
    InferenceReturned =>
        \A slot \in ConsequentSlots(rules) : Degree(sets, slot) = MaxStrength(slot)

\* The degrees of set s after the rule loop: in a targeted slot the largest of
\* the reset value 0 and the strengths of the rules that target it, in any
\* other slot the degree held before the call.
Aggregated(s) ==
    [k \in 1..sets[s].length |->
        IF Consequent(s, k - 1) \in ConsequentSlots(rules)
        THEN RMaxOf({R(0), MaxStrength(Consequent(s, k - 1))})
        ELSE pre[s][k]]

(* C2, amended: after fuzzyInference returns, every slot that is the        *)
(* consequent of some rule holds m / S, where m is the largest of 0 and the *)
(* firing strengths of the rules that target it and S is the sum of the     *)
(* degrees of its set after aggregation (m for a targeted slot, the degree  *)
(* held before the call for an untargeted one); it holds 0 when S = 0.      *)
C2_NormalizedMaxOfStrengths ==
    InferenceReturned =>
        \A slot \in ConsequentSlots(rules) :
            LET agg == Aggregated(slot.variable)
                S == SumTo(agg, sets[slot.variable].length)
            IN  Degree(sets, slot) =
                    IF S = R(0) THEN R(0) ELSE RDiv(agg[slot.value + 1], S)

\* Two rules into one slot with different strengths, and normalisation changed
\* the aggregated maximum.
C2_Witness ==
    /\ InferenceReturned
    /\ Len(rules) = 2
    /\ rules[1].consequent = rules[2].consequent
    /\ strengths[1] # strengths[2]
    /\ Degree(sets, rules[1].consequent) # MaxStrength(rules[1].consequent)
    /\ Degree(sets, rules[1].consequent) # R(0)

\* The stores that differ from the one the call found only in degrees of
\* consequent sets that no antecedent reads.
AltPreStores ==
    {[s \in SetIds |->
        [sets[s] EXCEPT !.membershipValues =
            [k \in 1..sets[s].length |->
                IF s \in ConsequentSets(rules)
                   /\ Consequent(s, k - 1) \notin AntecedentSlots(rules)
                THEN v[s][k] ELSE pre[s][k]]]] :
        v \in [SetIds -> [1..Len(InputMembershipFunctions) -> GarbageVals]]}

(* C3: two executions of fuzzyInference with the same rules and the same    *)
(* antecedent degrees, differing only in the degrees the consequent sets    *)
(* held before, end with equal degrees in every consequent set.             *)
C3_NoStaleLeak ==
    InferenceReturned =>
        \A alt \in AltPreStores : \A s \in ConsequentSets(rules) :
            fuzzyInference(rules, alt)[s].membershipValues = sets[s].membershipValues

(* C4: right after FuzzySetInit every degree of the set is 0.               *)
C4_ZeroAfterInit ==
    \A s \in SetIds :
        last = Call("FuzzySetInit", s, R(0), R(0)) =>
            \A i \in 1..sets[s].length : sets[s].membershipValues[i] = R(0)

\* No antecedent reads a set that some rule of the list writes.
AntecedentsApart(rs) == AntecedentSets(rs) \cap ConsequentSets(rs) = {}

(* C5: when no antecedent reads a consequent set, fuzzyInference on any     *)
(* permutation of the rule list, from the same starting state, leaves the   *)
(* same degrees in every set.                                               *)
C5_OrderIndependent ==
    (InferenceReturned /\ AntecedentsApart(rules)) =>
        \A p \in RuleOrders(Len(rules)) :
            fuzzyInference(Permuted(rules, p), PreStore) = sets

\* Two different rules into one slot, the first one the stronger.
C5_Witness ==
    /\ InferenceReturned
    /\ AntecedentsApart(rules)
    /\ Len(rules) = 2
    /\ rules[1].consequent = rules[2].consequent
    /\ RLt(strengths[2], strengths[1])
    /\ Degree(sets, rules[1].consequent) # R(0)

(* C6: within one fuzzyInference call every reset write stores 0 and comes  *)
(* before every aggregation write, and the consequent slot of every rule    *)
(* has been reset before the first aggregation write.                       *)
C6_ResetBeforeAggregation ==
    \A q \in 1..Len(wlog) :
        /\ wlog[q].kind = "reset" =>
              /\ wlog[q].val = R(0)
              /\ \A p \in 1..(q - 1) : wlog[p].kind # "aggregate"
        /\ wlog[q].kind = "aggregate" =>
              \A i \in 1..Len(rules) :
                  \E p \in 1..(q - 1) :
                      wlog[p].kind = "reset" /\ wlog[p].slot = rules[i].consequent

\* A later rule aggregated into the slot an earlier rule had raised above 0.
C6_Witness ==
    /\ pc = "normalize"
    /\ Len(rules) = 2
    /\ rules[1].consequent = rules[2].consequent
    /\ Len(wlog) = 4
    /\ wlog[3].kind = "aggregate" /\ wlog[3].val # R(0)
    /\ wlog[4].kind = "aggregate" /\ wlog[4].val = wlog[3].val

EffectiveDegree(st, v) ==
    IF v.invert THEN RSub(R(1), Degree(st, v)) ELSE Degree(st, v)

GroupValue(st, group) ==
    LET degrees == {EffectiveDegree(st, group.variables[k]) : k \in 1..Len(group.variables)}
    IN  IF group.fuzzy_operator = "FUZZY_ALL_OF" THEN RMinOf(degrees) ELSE RMaxOf(degrees)

ClaimedStrength(st, rule) ==
    RMinOf({GroupValue(st, rule.antecedent[j]) : j \in 1..Len(rule.antecedent)})

NonEmptyGroups(rule) ==
    /\ Len(rule.antecedent) > 0
    /\ \A j \in 1..Len(rule.antecedent) : Len(rule.antecedent[j].variables) > 0

(* C7: the firing strength computed for a rule is the minimum over its      *)
(* groups of the group value: the minimum (ALL_OF) or maximum (ANY_OF) of   *)
(* the effective degrees, 1 - degree for an inverted reference.             *)
C7_FiringStrength ==
    \A i \in 1..Len(strengths) :
        NonEmptyGroups(rules[i]) =>
            strengths[i] = ClaimedStrength(StoreAt(i), rules[i])

(* C8: defuzzification after normalizeClass returns what defuzzification   *)
(* of the set as drawn returns, for every vector of non-negative degrees.   *)
C8_ScaleInvariant ==
    last.op = "defuzzification" => last.y = defuzzification(arg)

\* The set was normalised to other degrees and then defuzzified.
C8_Witness ==
    /\ last.op = "defuzzification"
    /\ sets["Arg"].membershipValues # arg.membershipValues
    /\ arg.length > 1
    /\ last.y # R(0)

ClaimedCentroid(function, membership) ==
    IF membership = R(0) THEN R(0)
    ELSE CASE function.type = "TRIANGULAR" ->
                 IF function.a = function.b \/ function.b = function.c
                 THEN function.b
                 ELSE RDiv(RAdd(function.a, RAdd(function.b, function.c)), R(3))
           [] function.type = "TRAPEZOIDAL" ->
                 IF function.a = function.b /\ function.c = function.d
                 THEN RDiv(RAdd(function.b, function.c), R(2))
                 ELSE RDiv(RAdd(RAdd(function.a, function.b),
                                RAdd(function.c, function.d)), R(4))
           [] function.type = "RECTANGULAR" ->
                 RDiv(RAdd(function.a, function.b), R(2))

\* The sum of f over a finite set of indices.
RECURSIVE RSum(_, _)
RSum(f, I) ==
    IF I = {} THEN R(0)
    ELSE LET i == CHOOSE j \in I : TRUE IN RAdd(f[i], RSum(f, I \ {i}))

WeightedAverage(set) ==
    LET I == 1..set.length
        m == set.membershipValues
        cm == [i \in I |-> RMul(ClaimedCentroid(set.membershipFunctions[i], m[i]), m[i])]
    IN  IF RSum(m, I) = R(0) THEN R(0) ELSE RDiv(RSum(cm, I), RSum(m, I))

(* C9: defuzzification returns sum(c_i * m_i) / sum(m_i) when the degrees   *)
(* do not sum to 0, and 0 when they do.                                     *)
C9_WeightedAverage ==
    last.op = "defuzzification" => last.y = WeightedAverage(sets["Arg"])

\* Two shapes with non-zero degrees were averaged; and an all-zero vector.
C9_Witness ==
    /\ last.op = "defuzzification"
    /\ sets["Arg"].length = 2
    /\ sets["Arg"].membershipValues[1] # R(0)
    /\ sets["Arg"].membershipValues[2] # R(0)
    /\ sets["Arg"].membershipValues[1] # sets["Arg"].membershipValues[2]
    /\ last.y # R(0)

(* C10: the centroid of a shape with non-zero degree is b or (a+b+c)/3 for  *)
(* a triangle, (b+c)/2 or (a+b+c+d)/4 for a trapezoid, (a+b)/2 for a        *)
(* rectangle; with degree 0 it is 0.                                        *)
C10_Centroid ==
    last.op = "calculateCentroid" =>
        last.y = ClaimedCentroid(arg.function, arg.membership)

\* A trapezoid with one vertical edge only and a non-zero degree.
C10_Witness ==
    /\ last.op = "calculateCentroid"
    /\ arg.function.type = "TRAPEZOIDAL"
    /\ arg.function.a = arg.function.b
    /\ arg.function.c # arg.function.d
    /\ arg.membership # R(0)
    /\ last.y # R(0)

----------------------------------------------------------------------------
(* C11.  Scenario B of the minimal example.  The call that has just         *)
(* returned was the second call of the program, it ran the two rules of    *)
(* minimal.c and found Input = [1,0,0]; the one call before it produced    *)
(* Input's degrees, so Output is as FuzzySetInit left it.  Then Output.High *)
(* is 1, Output.Low is 0 and defuzzification of Output returns 80.         *)

ScenarioB ==
    /\ InferenceReturned
    /\ calls = 2
    /\ rules = <<RuleLowHigh, RuleNotLowLow>>
    /\ pre["Input"] = <<R(1), R(0), R(0)>>

C11_ScenarioB ==
    ScenarioB =>
        /\ sets["Output"].membershipValues[OUTPUT_HIGH + 1] = R(1)
        /\ sets["Output"].membershipValues[OUTPUT_LOW + 1] = R(0)
        /\ defuzzification(sets["Output"]) = R(80)

----------------------------------------------------------------------------
(* membershipFunction and calculateCentroid on their own: one shape from a *)
(* grid of parameters, any order, any kind the enum field can hold, and    *)
(* one crisp x from a grid of halves reaching past both ends.              *)

ParamMax == 3

\* The three enumerators and a value of the field that is none of them.
AllKinds == Kinds \cup {"UNKNOWN"}

XGrid == {Rat(k, 2) : k \in -1..(2 * ParamMax + 1)}

MembershipInit ==
    /\ \E a, b, c, d \in 0..ParamMax, type \in AllKinds,
          x \in XGrid, membership \in DegreeGrid :
          arg = [function |-> MembershipFunction(a, b, c, d, type),
                 x |-> x, membership |-> membership]
    /\ sets = [s \in {"Arg"} |-> Unallocated]
    /\ Idle

membershipFunctionCall ==
    /\ last = NoCall
    /\ last' = Call("membershipFunction", "Arg", arg.x,
                    membershipFunction(arg.x, arg.function))
    /\ calls' = calls + 1
    /\ UNCHANGED <<sets, rules, pc, idx, pre, strengths, evalAt, wlog, arg>>

MembershipNext ==
    \/ membershipFunctionCall
    \/ calculateCentroidCall

SpecMembership == MembershipInit /\ [][MembershipNext]_vars

\* membershipFunction has returned last.y for the shape and the x of arg.
Evaluated(type) == last.op = "membershipFunction" /\ arg.function.type = type

----------------------------------------------------------------------------
(* C12.  For every Trapezoidal(a,b,c,d) with a < b <= c < d,               *)
(* membershipFunction returns 0 for x <= a and for x >= d, (x-a)/(b-a) for *)
(* a < x <= b, 1 for b <= x <= c and (d-x)/(d-c) for c <= x < d.           *)

C12_Trapezoid ==
    LET f == arg.function
        x == arg.x
    IN  (Evaluated("TRAPEZOIDAL") /\ RLt(f.a, f.b) /\ RLe(f.b, f.c) /\ RLt(f.c, f.d)) =>
            /\ (RLe(x, f.a) \/ RLe(f.d, x)) => last.y = R(0)
            /\ (RLt(f.a, x) /\ RLe(x, f.b)) =>
                    last.y = RDiv(RSub(x, f.a), RSub(f.b, f.a))
            /\ (RLe(f.b, x) /\ RLe(x, f.c)) => last.y = R(1)
            /\ (RLe(f.c, x) /\ RLt(x, f.d)) =>
                    last.y = RDiv(RSub(f.d, x), RSub(f.d, f.c))

C12_Witness ==
    /\ Evaluated("TRAPEZOIDAL")
    /\ RLt(arg.function.a, arg.function.b)
    /\ RLt(arg.function.b, arg.x)
    /\ RLt(arg.x, arg.function.c)
    /\ RLt(arg.function.c, arg.function.d)
    /\ last.y = R(1)

----------------------------------------------------------------------------
(* C13.  For every Triangular(a,b,c) with a < b < c, membershipFunction    *)
(* returns 0 at a, 1 at b, 0 at c and 0 outside [a,c], and it does not     *)
(* decrease from a to b and does not increase from b to c.                 *)

C13_Triangle ==
    LET f == arg.function
        x == arg.x
    IN  (Evaluated("TRIANGULAR") /\ RLt(f.a, f.b) /\ RLt(f.b, f.c)) =>
            /\ x = f.a => last.y = R(0)
            /\ x = f.b => last.y = R(1)
            /\ x = f.c => last.y = R(0)
            /\ (RLt(x, f.a) \/ RLt(f.c, x)) => last.y = R(0)
            /\ \A x2 \in XGrid :
                  /\ (RLe(f.a, x) /\ RLe(x, x2) /\ RLe(x2, f.b)) =>
                        RLe(last.y, membershipFunction(x2, f))
                  /\ (RLe(f.b, x) /\ RLe(x, x2) /\ RLe(x2, f.c)) =>
                        RLe(membershipFunction(x2, f), last.y)

C13_Witness ==
    /\ Evaluated("TRIANGULAR")
    /\ RLt(arg.function.a, arg.x)
    /\ RLt(arg.x, arg.function.b)
    /\ RLt(arg.function.b, arg.function.c)
    /\ RLt(R(0), last.y)
    /\ RLt(last.y, R(1))

----------------------------------------------------------------------------
(* C14.  Triangular(a,b,c) with a < b and b = c, a vertical right edge.    *)

VerticalRight ==
    /\ Evaluated("TRIANGULAR")
    /\ RLt(arg.function.a, arg.function.b)
    /\ arg.function.b = arg.function.c

\* C14 as stated: membershipFunction returns 1 at x = b and 0 at every
\* other x.
C14_PeakOnly ==
    VerticalRight => last.y = (IF arg.x = arg.function.b THEN R(1) ELSE R(0))

\* C14 as the code has it: membershipFunction returns (x-a)/(b-a) for
\* a <= x <= b, which is 0 at a and 1 at b, and 0 for x < a and for x > b;
\* no division by zero takes place.
C14_RampToPeak ==
    LET f == arg.function
        x == arg.x
    IN  VerticalRight =>
            /\ last.y # DivByZero
            /\ last.y = (IF RLt(x, f.a) \/ RLt(f.b, x) THEN R(0)
                         ELSE RDiv(RSub(x, f.a), RSub(f.b, f.a)))
            /\ x = f.b => last.y = R(1)

C14_Witness ==
    /\ VerticalRight
    /\ RLt(arg.function.a, arg.x)
    /\ RLt(arg.x, arg.function.b)
    /\ RLt(R(0), last.y)
    /\ RLt(last.y, R(1))

----------------------------------------------------------------------------
(* C15.  For every Triangular(a,b,c) with a = b < c, a vertical left edge, *)
(* membershipFunction divides by no zero and returns 1 at x = a,           *)
(* (c-x)/(c-b) for b < x <= c, and 0 for x < a and for x > c.              *)

VerticalLeft ==
    /\ Evaluated("TRIANGULAR")
    /\ arg.function.a = arg.function.b
    /\ RLt(arg.function.b, arg.function.c)

C15_VerticalLeft ==
    LET f == arg.function
        x == arg.x
    IN  VerticalLeft =>
            /\ last.y # DivByZero
            /\ x = f.a => last.y = R(1)
            /\ (RLt(f.b, x) /\ RLe(x, f.c)) =>
                    last.y = RDiv(RSub(f.c, x), RSub(f.c, f.b))
            /\ (RLt(x, f.a) \/ RLt(f.c, x)) => last.y = R(0)

C15_Witness == VerticalLeft /\ arg.x = arg.function.a /\ last.y = R(1)

----------------------------------------------------------------------------
(* C16.  For every Rectangular(a,b), membershipFunction returns 1 for      *)
(* every x with a <= x < b and 0 for every other x, x = b included.        *)

C16_Rectangle ==
    Evaluated("RECTANGULAR") =>
        last.y = (IF RLe(arg.function.a, arg.x) /\ RLt(arg.x, arg.function.b)
                  THEN R(1) ELSE R(0))

C16_Witness ==
    /\ Evaluated("RECTANGULAR")
    /\ RLt(arg.function.a, arg.function.b)
    /\ arg.x = arg.function.b
    /\ last.y = R(0)

----------------------------------------------------------------------------
(* C17.  For a shape whose kind is none of Triangular, Trapezoidal and     *)
(* Rectangular, membershipFunction returns 0 for every x and               *)
(* calculateCentroid returns 0 for every degree.                           *)

C17_UnknownKind ==
    (arg.function.type \notin Kinds /\ last # NoCall) =>
        /\ last.op \in {"membershipFunction", "calculateCentroid"}
        /\ last.y = R(0)

\* x lies where the shape would have membership as a triangle
C17_Witness ==
    /\ Evaluated("UNKNOWN")
    /\ RLt(arg.function.a, arg.x)
    /\ RLt(arg.x, arg.function.c)
    /\ last.y = R(0)

\* the centroid of the unknown kind, at a degree that is not 0
C17_WitnessCentroid ==
    /\ last.op = "calculateCentroid"
    /\ arg.function.type \notin Kinds
    /\ arg.membership # R(0)
    /\ last.y = R(0)

----------------------------------------------------------------------------
(* C18.  For every x and every Triangular, Trapezoidal or Rectangular      *)
(* shape with any (a,b,c,d) of the grid, in any order, membershipFunction  *)
(* divides by no zero and returns a degree between 0 and 1.                *)

Degenerate(f) == f.a = f.b \/ f.b = f.c \/ f.c = f.d
MisOrdered(f) == RLt(f.b, f.a) \/ RLt(f.c, f.b) \/ RLt(f.d, f.c)

C18_DegreeInRange ==
    (last.op = "membershipFunction" /\ arg.function.type \in Kinds) =>
        /\ last.y # DivByZero
        /\ RLe(R(0), last.y)
        /\ RLe(last.y, R(1))

C18_Witness ==
    /\ last.op = "membershipFunction"
    /\ arg.function.type \in Kinds
    /\ MisOrdered(arg.function)
    /\ Degenerate(arg.function)
    /\ RLt(R(0), last.y)
    /\ RLt(last.y, R(1))

----------------------------------------------------------------------------
(* C19.  If every degree of every FuzzySet the rule list refers to lies in *)
(* [0,1] when fuzzyInference is entered, then every degree of those sets   *)
(* lies in [0,1] when it returns.  A set no rule refers to is not touched  *)
(* by the call, so it holds what it held.                                  *)

ReferencedSets(rs) == ConsequentSets(rs) \cup AntecedentSets(rs)

InUnit(values) ==
    \A i \in 1..Len(values) :
        values[i] # DivByZero /\ RLe(R(0), values[i]) /\ RLe(values[i], R(1))

----------------------------------------------------------------------------
(* FuzzyClassifier on its own: the set "Arg" of the fan-controller shapes, *)
(* holding any degrees of the grid, classified at crisp values where the   *)
(* shapes overlap, meet or all vanish.                                     *)

ClassifierInputs == {R(-30), R(10), R(20), R(35), R(62)}

ClassifierNext == \E x \in ClassifierInputs : FuzzyClassifierCall("Arg", x)

SpecClassifier == DefuzzInit /\ [][ClassifierNext]_vars

----------------------------------------------------------------------------
(* C20.  After FuzzyClassifier(x, set), degree i equals                    *)
(* membershipFunction(x, shape i) for every index i of the set: every      *)
(* degree is overwritten, whatever the set held before, and the degrees    *)
(* are stored as computed, not normalized.                                 *)

C20_Classified ==
    last.op = "FuzzyClassifier" =>
        /\ sets["Arg"].length = arg.length
        /\ sets["Arg"].membershipFunctions = arg.membershipFunctions
        /\ \A i \in 1..arg.length :
              sets["Arg"].membershipValues[i] =
                  membershipFunction(last.x, arg.membershipFunctions[i])

\* every degree held before the call differs from the one stored, and the
\* stored degrees sum to more than 1
C20_Witness ==
    /\ last.op = "FuzzyClassifier"
    /\ calls = 1
    /\ \A i \in 1..arg.length :
          sets["Arg"].membershipValues[i] # arg.membershipValues[i]
    /\ RLt(R(1), SumTo(sets["Arg"].membershipValues, arg.length))

\* the stored degrees sum to less than 1 and not to 0
C20_WitnessBelow ==
    /\ last.op = "FuzzyClassifier"
    /\ RLt(R(0), SumTo(sets["Arg"].membershipValues, arg.length))
    /\ RLt(SumTo(sets["Arg"].membershipValues, arg.length), R(1))

----------------------------------------------------------------------------
(* C21.  After normalizeClass on a set with non-negative degrees: if the   *)
(* degrees summed to s, not 0, before the call, every degree equals its    *)
(* previous value divided by s and the degrees sum to 1; if they summed to *)
(* 0, every degree is 0 after the call.                                    *)

NonNegative(values) ==
    \A i \in 1..Len(values) : values[i] # DivByZero /\ RLe(R(0), values[i])

\* normalizeClass was the first call, so arg holds the degrees it found.
NormalizedOnce == last.op = "normalizeClass" /\ calls = 1

C21_Normalized ==
    LET I == 1..arg.length
        before == arg.membershipValues
        after == sets["Arg"].membershipValues
        s == RSum(before, I)
    IN  (NormalizedOnce /\ NonNegative(before)) =>
            IF s # R(0)
            THEN /\ \A i \in I : after[i] = RDiv(before[i], s)
                 /\ RSum(after, I) = R(1)
            ELSE \A i \in I : after[i] = R(0)

C21_Witness ==
    /\ NormalizedOnce
    /\ arg.length > 1
    /\ \A i \in 1..arg.length :
          /\ arg.membershipValues[i] # R(0)
          /\ sets["Arg"].membershipValues[i] # arg.membershipValues[i]

\* the degrees summed to 0
C21_WitnessZero ==
    /\ NormalizedOnce
    /\ RSum(arg.membershipValues, 1..arg.length) = R(0)
    /\ RSum(sets["Arg"].membershipValues, 1..arg.length) = R(0)

----------------------------------------------------------------------------
(* C22.  In every state reached after FuzzySetInit by FuzzyClassifier,     *)
(* fuzzyInference, normalizeClass and defuzzification calls, each          *)
(* FuzzySet's length and shape list are the ones given at construction;    *)
(* only degrees change.                                                    *)

C22_ShapesFixed ==
    \A s \in SetIds :
        Initialised(s) =>
            /\ sets[s].length = Len(Functions(s))
            /\ sets[s].membershipFunctions = Functions(s)
            /\ Len(sets[s].membershipValues) = sets[s].length

\* two calls have been made and Output holds other degrees than the ones
\* fuzzyInference found
C22_Witness ==
    /\ InferenceReturned
    /\ calls = 2
    /\ \A s \in SetIds : Initialised(s)
    /\ sets["Output"].membershipValues # pre["Output"]
    /\ sets["Output"].membershipFunctions = OutputMembershipFunctions

----------------------------------------------------------------------------
(* C23.  No step of fuzzyInference changes a degree of a FuzzySet that is  *)
(* not the consequent set of some rule of the list, and defuzzification    *)
(* changes no degree of its argument.                                      *)

\* a step of fuzzyInference: its entry, an iteration of one of its loops,
\* or its immediate return on an empty rule list
InferenceStep ==
    \/ pc # "idle"
    \/ pc' # "idle"
    \/ (calls' = calls + 1 /\ last' = Returned)

DefuzzificationStep == calls' = calls + 1 /\ last'.op = "defuzzification"

C23_Frame ==
    [][ /\ InferenceStep =>
              \A s \in SetIds \ ConsequentSets(rules) : sets'[s] = sets[s]
        /\ DefuzzificationStep => sets' = sets ]_vars

\* fuzzyInference has read Input, which held degrees that do not sum to 1,
\* and has written Output
C23_Witness ==
    /\ InferenceReturned
    /\ "Input" \in AntecedentSets(rules) \ ConsequentSets(rules)
    /\ SumTo(sets["Input"].membershipValues, sets["Input"].length) \notin {R(0), R(1)}
    /\ sets["Input"].membershipValues = pre["Input"]
    /\ sets["Output"].membershipValues # pre["Output"]

\* defuzzification has returned a value other than 0
C23_WitnessDefuzz ==
    /\ last.op = "defuzzification"
    /\ last.y # R(0)

----------------------------------------------------------------------------
(* FuzzyClassifier(x, &Input) and FuzzyClassifier(y, &Output) run by two   *)
(* threads, one loop iteration per step.  pc and idx are per set here: the *)
(* position of the call on that set.  pre holds the degrees at the start.  *)

\* A fault of construction seen from the loop: the sets share one degree
\* buffer, so the write lands in every set.
ClassifierWriteShared(st, s, i, x) ==
    [t \in DOMAIN st |->
        [st[t] EXCEPT !.membershipValues[i] =
            membershipFunction(x, st[s].membershipFunctions[i])]]

\* the body of the loop of FuzzyClassifier, for index i (from 1) of set s
ClassifierWrite(st, s, i, x) ==
    [st EXCEPT ![s].membershipValues[i] =
        membershipFunction(x, st[s].membershipFunctions[i])]

ParallelInit ==
    /\ \E heap \in [SetIds -> [1..Len(InputMembershipFunctions) -> GarbageVals]] :
          sets = [s \in SetIds |->
                    FuzzySetInit(Functions(s), Len(Functions(s)), heap[s])]
    /\ arg \in [SetIds -> Inputs]
    /\ pre = [s \in SetIds |-> sets[s].membershipValues]
    /\ pc = [s \in SetIds |-> "loop"]
    /\ idx = [s \in SetIds |-> 1]
    /\ rules = <<>>
    /\ strengths = <<>>
    /\ evalAt = <<>>
    /\ wlog = <<>>
    /\ last = NoCall
    /\ calls = 0

ClassifierStep(s) ==
    /\ pc[s] = "loop"
    /\ sets' = ClassifierWrite(sets, s, idx[s], arg[s])
    /\ idx' = [idx EXCEPT ![s] = @ + 1]
    /\ pc' = [pc EXCEPT ![s] = IF idx[s] < sets[s].length THEN "loop" ELSE "done"]
    /\ UNCHANGED <<rules, pre, strengths, evalAt, wlog, last, calls, arg>>

ParallelNext == \E s \in SetIds : ClassifierStep(s)

SpecParallel == ParallelInit /\ [][ParallelNext]_vars

----------------------------------------------------------------------------
(* C24.  Every interleaving of the per-index writes of                     *)
(* FuzzyClassifier(x, A) and FuzzyClassifier(y, B), A and B distinct, ends *)
(* in the state that running the two calls one after the other reaches, in *)
(* either order.                                                           *)

BothDone == \A s \in SetIds : pc[s] = "done"

\* the two calls one after the other, first on set s then on set t
Sequential(s, t) ==
    LET first == [PreStore EXCEPT ![s] = FuzzyClassifier(arg[s], @)]
    IN  [first EXCEPT ![t] = FuzzyClassifier(arg[t], @)]

C24_Interleaved ==
    BothDone =>
        /\ sets = Sequential("Input", "Output")
        /\ sets = Sequential("Output", "Input")

\* both calls have run to their end and each has changed its set
C24_Witness ==
    /\ BothDone
    /\ arg["Input"] # arg["Output"]
    /\ \A s \in SetIds : sets[s].membershipValues # pre[s]

\* both calls are in the middle of their loops
C24_WitnessMidway == \A s \in SetIds : pc[s] = "loop" /\ idx[s] = 2

----------------------------------------------------------------------------
(* C25.  For every rule list, the lists in which one rule's antecedent     *)
(* reads a slot of a FuzzySet that another rule has as its consequent set  *)
(* included, fuzzyInference on any permutation of the list, from the same  *)
(* starting state, leaves the same degrees in every FuzzySet.              *)

C25_OrderIndependentChained ==
    InferenceReturned =>
        \A p \in RuleOrders(Len(rules)) :
            \A s \in SetIds :
                fuzzyInference(Permuted(rules, p), PreStore)[s].membershipValues
                    = sets[s].membershipValues

----------------------------------------------------------------------------
(* C26.  For every FuzzySet with non-negative degrees, at least one not 0, *)
(* the value defuzzification returns lies between the smallest and the     *)
(* largest representative centroid of the shapes whose degree is not 0.    *)

\* the representative centroids of the shapes of the set with a degree
\* other than 0
ActiveCentroids(set) ==
    {ClaimedCentroid(set.membershipFunctions[i], set.membershipValues[i]) :
        i \in {j \in 1..set.length : set.membershipValues[j] # R(0)}}

C26_WithinCentroids ==
    (/\ last.op = "defuzzification"
     /\ NonNegative(sets["Arg"].membershipValues)
     /\ ActiveCentroids(sets["Arg"]) # {}) =>
        /\ RLe(RMinOf(ActiveCentroids(sets["Arg"])), last.y)
        /\ RLe(last.y, RMaxOf(ActiveCentroids(sets["Arg"])))

\* two shapes with different centroids and different degrees: the result
\* lies strictly between the two centroids
C26_Witness ==
    /\ last.op = "defuzzification"
    /\ Cardinality(ActiveCentroids(sets["Arg"])) = 2
    /\ sets["Arg"].membershipValues[1] # sets["Arg"].membershipValues[2]
    /\ RLt(RMinOf(ActiveCentroids(sets["Arg"])), last.y)
    /\ RLt(last.y, RMaxOf(ActiveCentroids(sets["Arg"])))

----------------------------------------------------------------------------
(* C27.  With antecedent sets disjoint from consequent sets, calling       *)
(* fuzzyInference a second time right after it returned, with the same     *)
(* rule list, leaves every degree of every consequent FuzzySet as the      *)
(* first call left it.                                                     *)

C27_Idempotent ==
    (InferenceReturned /\ AntecedentsApart(rules)) =>
        \A s \in ConsequentSets(rules) :
            fuzzyInference(rules, sets)[s].membershipValues = sets[s].membershipValues

----------------------------------------------------------------------------
(* C28.  fuzzyInference calls normalizeClass once per rule, so a           *)
(* consequent set targeted by k rules is normalized k times; for every set *)
(* with non-negative degrees the degrees after these k normalizations are  *)
(* the degrees after a single normalizeClass.                              *)

\* the store as the rule loop of the running or returned call left it
AggregatedStore ==
    RulesLoop(rules, ResetLoop(rules, PreStore, Len(rules)), Len(rules))

\* the rules whose iteration of the normalisation loop has run
NormalizedRules ==
    IF InferenceReturned THEN 1..Len(rules)
    ELSE IF pc = "normalize" THEN 1..(idx - 1)
    ELSE {}

C28_NormalizedOnce ==
    \A j \in NormalizedRules :
        LET s == rules[j].consequent.variable
        IN  NonNegative(AggregatedStore[s].membershipValues) =>
                sets[s] = normalizeClass(AggregatedStore[s])

\* two rules into one set, whose aggregated degrees sum to neither 0 nor 1:
\* the set has been normalized twice
C28_Witness ==
    /\ InferenceReturned
    /\ Len(rules) = 2
    /\ rules[1].consequent.variable = rules[2].consequent.variable
    /\ LET agg == AggregatedStore[rules[1].consequent.variable]
       IN  /\ NonNegative(agg.membershipValues)
           /\ SumTo(agg.membershipValues, agg.length) \notin {R(0), R(1)}

----------------------------------------------------------------------------
(* The evaluation of one antecedent group on its own: the set "Arg" with   *)
(* degrees of the grid and a list of references into it, evaluated as an   *)
(* ALL_OF and as an ANY_OF group of inverted references.                   *)

MaxVariables == 2

\* the lists of up to MaxVariables references into a set of n degrees
ReferenceLists(n) ==
    UNION {[1..k -> {VAR("Arg", value) : value \in 0..(n - 1)}] : k \in 0..MaxVariables}

Inverted(variables) ==
    [k \in 1..Len(variables) |-> NOT(variables[k].variable, variables[k].value)]

GroupInit ==
    /\ \E n \in 1..MaxLength :
          \E heap \in [1..n -> DegreeGrid], variables \in ReferenceLists(n) :
              /\ sets = [s \in {"Arg"} |->
                            FuzzySetInit([i \in 1..n |-> OutputMembershipFunctions[i]],
                                         n, heap)]
              /\ arg = variables
    /\ Idle

\* lines 90-116 on ALL_OF(NOT ..., NOT ...)
allOfInvertedCall ==
    /\ last = NoCall
    /\ last' = Call("ALL_OF", "Arg", R(0),
                    andMembership(sets, Inverted(arg), Len(arg)))
    /\ calls' = calls + 1
    /\ UNCHANGED <<sets, rules, pc, idx, pre, strengths, evalAt, wlog, arg>>

\* lines 56-82 on ANY_OF(NOT ..., NOT ...)
anyOfInvertedCall ==
    /\ last = NoCall
    /\ last' = Call("ANY_OF", "Arg", R(0),
                    orMembership(sets, Inverted(arg), Len(arg)))
    /\ calls' = calls + 1
    /\ UNCHANGED <<sets, rules, pc, idx, pre, strengths, evalAt, wlog, arg>>

GroupNext ==
    \/ allOfInvertedCall
    \/ anyOfInvertedCall

SpecGroup == GroupInit /\ [][GroupNext]_vars

----------------------------------------------------------------------------
(* C29.  For every list of references with degrees in [0,1], the value of  *)
(* an ALL_OF group in which every reference is inverted is 1 minus the     *)
(* value of the ANY_OF group of the same references not inverted, and the  *)
(* value of an ANY_OF group of inverted references is 1 minus the value of *)
(* the ALL_OF group of the same references not inverted.                   *)

C29_DeMorgan ==
    InUnit(sets["Arg"].membershipValues) =>
        /\ last.op = "ALL_OF" =>
              last.y = RSub(R(1), orMembership(sets, arg, Len(arg)))
        /\ last.op = "ANY_OF" =>
              last.y = RSub(R(1), andMembership(sets, arg, Len(arg)))

\* two references to different degrees, neither 0 nor 1
C29_Witness ==
    /\ last.op = "ALL_OF"
    /\ Len(arg) = 2
    /\ Degree(sets, arg[1]) # Degree(sets, arg[2])
    /\ RLt(R(0), last.y)
    /\ RLt(last.y, R(1))

C29_WitnessAnyOf ==
    /\ last.op = "ANY_OF"
    /\ Len(arg) = 2
    /\ Degree(sets, arg[1]) # Degree(sets, arg[2])
    /\ RLt(R(0), last.y)

----------------------------------------------------------------------------
(* The driver on rule lists with empty folds: num_antecedents = 0 and      *)
(* groups with num_variables = 0.                                          *)

\* no antecedent group at all
RuleAlways == Rule(<<>>, Consequent("Output", OUTPUT_HIGH))

\* one ALL_OF group without references
RuleEmptyAll == Rule(<<ALL_OF(<<>>)>>, Consequent("Output", OUTPUT_LOW))

\* one ANY_OF group without references
RuleEmptyAny == Rule(<<ANY_OF(<<>>)>>, Consequent("Output", OUTPUT_MEDIUM))

\* the second rule of minimal.c with an empty ANY_OF group next to its group
RuleNotLowEmptyAny ==
    Rule(<<ALL_OF(<<NOT("Input", INPUT_LOW)>>), ANY_OF(<<>>)>>,
         Consequent("Output", OUTPUT_LOW))

FoldRuleUniverse == {RuleAlways, RuleEmptyAll, RuleEmptyAny, RuleNotLowEmptyAny}

FoldRuleLists == UNION {[1..n -> FoldRuleUniverse] : n \in 0..MaxRules}

FoldsInit ==
    /\ sets = [s \in SetIds |-> Unallocated]
    /\ rules \in FoldRuleLists
    /\ pc = "idle"
    /\ idx = 0
    /\ pre = [s \in SetIds |-> <<>>]
    /\ strengths = <<>>
    /\ evalAt = <<>>
    /\ wlog = <<>>
    /\ last = NoCall
    /\ calls = 0
    /\ arg = <<>>

SpecFolds == FoldsInit /\ [][Next]_vars

----------------------------------------------------------------------------
(* C30.  In fuzzyInference a rule with zero antecedent groups fires with   *)
(* strength 1, an ALL_OF group with zero references has value 1, an ANY_OF *)
(* group with zero references has value 0, so that a rule containing an    *)
(* empty ANY_OF group fires with strength 0; a call with numRules = 0      *)
(* changes no degree.                                                      *)

HasEmptyAnyOf(rule) ==
    \E j \in 1..Len(rule.antecedent) : rule.antecedent[j] = ANY_OF(<<>>)

C30_EmptyFolds ==
    /\ \A i \in 1..Len(strengths) :
          /\ Len(rules[i].antecedent) = 0 => strengths[i] = R(1)
          /\ rules[i].antecedent = <<ALL_OF(<<>>)>> =>
                /\ andMembership(StoreAt(i), <<>>, 0) = R(1)
                /\ strengths[i] = R(1)
          /\ HasEmptyAnyOf(rules[i]) =>
                /\ orMembership(StoreAt(i), <<>>, 0) = R(0)
                /\ strengths[i] = R(0)
    /\ (InferenceReturned /\ Len(rules) = 0) =>
          \A s \in SetIds : sets[s].membershipValues = pre[s]

====
